---------------------------- MODULE Spec2Model ----------------------------
(***************************************************************************)
(* Model of backend/index.js: the in-memory meeting registry (meetingData, *)
(* generateMeetingId, /create-meeting, /select-slot, /validate-meeting)    *)
(* and the Socket.IO signalling relay (join-room, send-call, accept-call,  *)
(* disconnect).  The file holds two versions of the server: version 1      *)
(* mails the invitation (lines 1-248), version 2 only returns the link     *)
(* (lines 249-464).  `variant` says which one is running.                  *)
(*                                                                         *)
(* Node runs every handler to completion on one thread; a handler gives up *)
(* control only at an `await`.  Each action below is therefore one         *)
(* synchronous stretch of a handler.                                       *)
(***************************************************************************)
EXTENDS Integers, Sequences, FiniteSets, TLC

VARIABLES
    variant,      \* which version of the server runs (1: e-mail, 2: phone)
    now,          \* Date.now()
    meetingData,  \* own properties of the meetingData object: id -> record
    inherited,    \* properties written onto objects meetingData inherits
    mailQueue,    \* transporter.sendMail calls awaited and not yet settled
    res,          \* what the step just taken answered (NoResponse if nothing)
    sockets,      \* connected socket ids
    rooms,        \* socket id -> the rooms the socket is in
    emitted,      \* events the step just taken delivered: [to, event, data]
    req,          \* the client event the step just taken handled
    inbox         \* socket id -> the 'user-joined' events it got, in order

vars == <<variant, now, meetingData, inherited, mailQueue, res,
          sockets, rooms, emitted, req, inbox>>

\* What the lifecycle handlers read and write.
storeVars == <<variant, now, meetingData, inherited, mailQueue>>

-----------------------------------------------------------------------------
(* Bounds of the model                                                     *)

\* Frames the call stack holds before generateMeetingId overflows it.
MaxStack == 2
\* The clock advances at most MaxEpochs times, by one TTL each time.
MaxEpochs == 2
\* `inbox` keeps the first MaxInbox notifications of every socket.
MaxInbox == 2

-----------------------------------------------------------------------------
(* JavaScript values                                                       *)

\* A JS string whose content matters is a tuple of one-character strings.
\* null and undefined are tuples no string can equal.
Null == <<"null">>
Undefined == <<"undefined">>

\* `!v` for the values a request field can hold.
Falsy(v) == v \in {Null, Undefined, <<>>}

Digits == {"0", "1", "2", "3", "4", "5", "6", "7", "8", "9"}

\* /^\d{2}:\d{2}$/.test(slotTime)
SlotPattern(s) ==
    /\ Len(s) = 5
    /\ s[1] \in Digits
    /\ s[2] \in Digits
    /\ s[3] = ":"
    /\ s[4] \in Digits
    /\ s[5] \in Digits

\* 30 * 60 * 1000
TTL == 30 * 60 * 1000

\* The generator's alphabet.
chars == <<"A", "B", "C", "D", "E", "F", "G", "H", "J", "K", "L", "M", "N",
           "P", "Q", "R", "S", "T", "U", "V", "W", "X", "Y", "Z",
           "2", "3", "4", "5", "6", "7", "8", "9">>

\* Every string the for-loop of generateMeetingId can build.  The id space
\* is scaled down from 32^8: Math.random() reaches the first two characters
\* of `chars` and the loop draws one character, so that the registry can
\* fill up.
GenIds == {"" \o chars[i] : i \in {1, 2}}

\* Names meetingData inherits from Object.prototype; each is a function
\* object, hence truthy, with no id, expires, slotTime or status of its own.
InheritedNames == {"constructor"}

\* A string the generator cannot build and the object does not inherit.
UnknownIds == {"abc"}

\* "" stands for an absent or empty meetingId.
IdInputs == GenIds \cup InheritedNames \cup UnknownIds \cup {""}

\* recipientEmail / recipientPhoneNumber; <<>> is an absent or empty one.
Contacts == {<<"+", "1">>}
ContactInputs == Contacts \cup {Undefined}

SlotInputs ==
    { <<"0", "9", ":", "3", "0">>,
      <<"1", "4", ":", "0", "0">>,
      <<"2", "5", ":", "6", "1">>,
      <<"9", ":", "3", "0">>,
      <<"n", "o", "o", "n">>,
      Undefined }

\* `req` holds the Socket.IO event a handler ran for, the socket it came
\* from and the payload.
NoRequest == [event |-> "none"]

\* `res` holds the handler's operation, the meetingId it worked on, the
\* HTTP status and the JSON body.
NoResponse == [op |-> "none"]

-----------------------------------------------------------------------------
(* The registry                                                            *)

\* meetingData[id], as the handlers' `const meeting = meetingData[id]` and
\* `if (!meeting)` see it: an own record, else an inherited object.
Own(id) == id \in DOMAIN meetingData
Truthy(id) == Own(id) \/ id \in InheritedNames

\* meeting.slotTime for a truthy lookup.
SlotOf(id) == IF Own(id) THEN meetingData[id].slotTime ELSE inherited[id].slotTime

\* Mutant: a confirmed meeting is never reported expired.
ExpiredUnlessConfirmed(id, t) ==
    Own(id) /\ t > meetingData[id].expires /\ meetingData[id].status # "confirmed"

\* Date.now() > meeting.expires; an inherited object has no `expires`, and
\* a comparison with undefined is false.
Expired(id, t) == Own(id) /\ t > meetingData[id].expires

\* Mutant: the uniqueness check is left out; the first draw is returned.
generateMeetingIdUnchecked(draws, depth) == draws[depth]

\* generateMeetingId: `draws` are the ids the successive calls build from
\* Math.random(); the first one not stored is returned.  When every frame
\* the stack can hold has drawn a stored id, the recursion overflows.
RECURSIVE generateMeetingId(_, _)
generateMeetingId(draws, depth) ==
    IF depth > Len(draws) THEN "RangeError"
    ELSE IF Truthy(draws[depth]) THEN generateMeetingId(draws, depth + 1)
    ELSE draws[depth]

Draws == [1..MaxStack -> GenIds]

\* What becomes of a handler's rejected promise: Express 4 drops it and no
\* response is ever written (status 0 here); Express 5 answers 500.
RejectionOutcomes == {0, 500}

\* The record /create-meeting stores.
NewMeeting(id, contact, expires, createdAt) ==
    [id |-> id, createdAt |-> createdAt, recipient |-> contact,
     expires |-> expires, slotTime |-> Null, status |-> "pending"]

\* Mutant: the registry is replaced by one holding the new meeting alone.
StoreAlone(id, rec) == [k \in {id} |-> rec]

Store(id, rec) ==
    [k \in DOMAIN meetingData \cup {id} |->
        IF k = id THEN rec ELSE meetingData[k]]

\* POST /create-meeting up to its first await (version 1) or to its end
\* (version 2).
CreateMeeting(contact, draws) ==
    /\ IF Falsy(contact)
       THEN /\ res' = [op |-> "create-meeting", meetingId |-> "",
                       status |-> 400, body |-> [success |-> FALSE]]
            /\ UNCHANGED <<now, meetingData, mailQueue>>
       ELSE LET meetingId == generateMeetingId(draws, 1)
                expires == now + TTL
            IN  IF meetingId = "RangeError"
                THEN /\ \E outcome \in RejectionOutcomes :
                            res' = [op |-> "create-meeting", meetingId |-> "",
                                    status |-> outcome,
                                    body |-> [error |-> "RangeError"]]
                     /\ UNCHANGED <<now, meetingData, mailQueue>>
                ELSE /\ now' = now
                     /\ meetingData' =
                          Store(meetingId,
                                NewMeeting(meetingId, contact, expires, now))
                     /\ IF variant = 1
                        THEN /\ mailQueue' = Append(mailQueue,
                                    [meetingId |-> meetingId, expires |-> expires,
                                     to |-> contact])
                             /\ res' = NoResponse
                        ELSE /\ mailQueue' = mailQueue
                             /\ res' = [op |-> "create-meeting",
                                        meetingId |-> meetingId,
                                        status |-> 200,
                                        body |-> [success |-> TRUE,
                                                  meetingId |-> meetingId,
                                                  expires |-> expires,
                                                  recipient |-> contact]]
    /\ emitted' = {}
    /\ req' = NoRequest
    /\ UNCHANGED <<variant, inherited, sockets, rooms>>

Remove(q, i) == [j \in 1..(Len(q) - 1) |-> IF j < i THEN q[j] ELSE q[j + 1]]

\* Mutant: when the mail fails the stored meeting is deleted again.
MailSettledRollback(i, delivered) ==
    /\ i \in 1..Len(mailQueue)
    /\ mailQueue' = Remove(mailQueue, i)
    /\ res' = [op |-> "create-meeting",
               meetingId |-> mailQueue[i].meetingId,
               status |-> IF delivered THEN 200 ELSE 500,
               body |-> IF delivered
                        THEN [success |-> TRUE,
                              meetingId |-> mailQueue[i].meetingId,
                              expires |-> mailQueue[i].expires]
                        ELSE [success |-> FALSE, code |-> "EMAIL_FAILED"]]
    /\ meetingData' =
          IF delivered THEN meetingData
          ELSE [k \in DOMAIN meetingData \ {mailQueue[i].meetingId} |->
                   meetingData[k]]
    /\ emitted' = {}
    /\ req' = NoRequest
    /\ UNCHANGED <<variant, now, inherited, sockets, rooms>>

\* The awaited sendMail settles: the handler resumes in the try block
\* (delivered) or in the catch block (failed).
MailSettled(i, delivered) ==
    /\ i \in 1..Len(mailQueue)
    /\ mailQueue' = Remove(mailQueue, i)
    /\ res' = IF delivered
              THEN [op |-> "create-meeting",
                    meetingId |-> mailQueue[i].meetingId,
                    status |-> 200,
                    body |-> [success |-> TRUE,
                              meetingId |-> mailQueue[i].meetingId,
                              expires |-> mailQueue[i].expires]]
              ELSE [op |-> "create-meeting",
                    meetingId |-> mailQueue[i].meetingId,
                    status |-> 500,
                    body |-> [success |-> FALSE, code |-> "EMAIL_FAILED"]]
    /\ emitted' = {}
    /\ req' = NoRequest
    /\ UNCHANGED <<variant, now, meetingData, inherited, sockets, rooms>>

\* Mutant: the confirmation also renews the meeting for another TTL.
ConfirmRenews(rec, slotTime) ==
    [rec EXCEPT !.slotTime = slotTime, !.status = "confirmed",
                !.expires = now + TTL]

\* Mutant: the first confirmation wins; a confirmed meeting keeps its slot.
ConfirmOnce(rec, slotTime) ==
    IF rec.status = "confirmed" THEN rec
    ELSE [rec EXCEPT !.slotTime = slotTime, !.status = "confirmed"]

\* Mutant: choosing the slot a meeting already has takes the slot back.
ConfirmToggle(rec, slotTime) ==
    IF rec.slotTime = slotTime
    THEN [rec EXCEPT !.slotTime = Null, !.status = "pending"]
    ELSE [rec EXCEPT !.slotTime = slotTime, !.status = "confirmed"]

\* Mutant: the slot is stored and the status line is forgotten.
ConfirmSlotOnly(rec, slotTime) == [rec EXCEPT !.slotTime = slotTime]

\* meeting.slotTime = slotTime; meeting.status = 'confirmed';
Confirm(rec, slotTime) == [rec EXCEPT !.slotTime = slotTime, !.status = "confirmed"]

\* POST /select-slot
SelectSlot(meetingId, slotTime) ==
    /\ LET answer(status, msg) ==
               [op |-> "select-slot", meetingId |-> meetingId, status |-> status,
                body |-> [success |-> status = 200, message |-> msg]]
       IN  IF meetingId = "" \/ Falsy(slotTime)
           THEN /\ res' = answer(400, "required")
                /\ UNCHANGED <<meetingData, inherited>>
           ELSE IF ~Truthy(meetingId)
           THEN /\ res' = answer(404, "Meeting not found.")
                /\ UNCHANGED <<meetingData, inherited>>
           ELSE IF ~SlotPattern(slotTime)
           THEN /\ res' = answer(400, "Invalid slot time format. Expected HH:MM.")
                /\ UNCHANGED <<meetingData, inherited>>
           ELSE /\ res' = answer(200, "Slot confirmed successfully.")
                /\ IF Own(meetingId)
                   THEN /\ meetingData' =
                             [meetingData EXCEPT
                                 ![meetingId] = Confirm(@, slotTime)]
                        /\ UNCHANGED inherited
                   ELSE /\ inherited' =
                             [inherited EXCEPT
                                 ![meetingId] = Confirm(@, slotTime)]
                        /\ UNCHANGED meetingData
    /\ emitted' = {}
    /\ req' = NoRequest
    /\ UNCHANGED <<variant, now, mailQueue, sockets, rooms>>

\* The body GET /validate-meeting/:meetingId answers with.
ValidateBody(meetingId, t) ==
    IF ~Truthy(meetingId)
    THEN [valid |-> FALSE, message |-> "Meeting not found."]
    ELSE IF Expired(meetingId, t)
    THEN [valid |-> FALSE,
          message |-> "This meeting invitation link has expired."]
    ELSE [valid |-> TRUE,
          meetingId |-> IF Own(meetingId) THEN meetingData[meetingId].id
                        ELSE "undefined",
          slotTime |-> SlotOf(meetingId)]

\* Mutant: validation sweeps the meeting it finds expired out of the
\* registry.
ValidateMeetingEvicting(meetingId) ==
    /\ meetingId # ""
    /\ res' = [op |-> "validate-meeting", meetingId |-> meetingId,
               status |-> 200, body |-> ValidateBody(meetingId, now)]
    /\ meetingData' = IF Expired(meetingId, now)
                      THEN [k \in DOMAIN meetingData \ {meetingId} |->
                                meetingData[k]]
                      ELSE meetingData
    /\ emitted' = {}
    /\ req' = NoRequest
    /\ UNCHANGED <<variant, now, inherited, mailQueue, sockets, rooms>>

\* GET /validate-meeting/:meetingId (the route needs a non-empty id)
ValidateMeeting(meetingId) ==
    /\ meetingId # ""
    /\ res' = [op |-> "validate-meeting", meetingId |-> meetingId,
               status |-> 200, body |-> ValidateBody(meetingId, now)]
    /\ emitted' = {}
    /\ req' = NoRequest
    /\ UNCHANGED <<variant, now, meetingData, inherited, mailQueue, sockets, rooms>>

\* Time passes between two requests.
Tick ==
    /\ now \div TTL < MaxEpochs
    /\ now' = now + TTL
    /\ res' = NoResponse
    /\ emitted' = {}
    /\ req' = NoRequest
    /\ UNCHANGED <<variant, meetingData, inherited, mailQueue, sockets, rooms>>

-----------------------------------------------------------------------------
(* The signalling relay                                                    *)

\* Ids Socket.IO gives to connections; a client cannot choose its own.
SocketIds == {"s1", "s2", "s3"}

\* Room names a client can send: a meeting id, or any socket's id.
RoomInputs == {"A"} \cup SocketIds

\* callerId is whatever the client puts in the payload.
CallerInputs == SocketIds \cup {"A"}

Signals == {"sdp"}

\* The sockets in room `room`.  Socket.IO puts every socket in the room
\* named by its own id when it connects.
Members(room) == {s \in sockets : room \in rooms[s]}

\* io.to(room).emit(event, data): one delivery per member of the room.
Emit(room, event, data, except) ==
    {[to |-> t, room |-> room, event |-> event, data |-> data] :
        t \in Members(room) \ except}

\* io.on('connection'): a new connection; an id is never handed out twice.
Connect(s) ==
    /\ s \notin DOMAIN rooms
    /\ sockets' = sockets \cup {s}
    /\ rooms' = [k \in DOMAIN rooms \cup {s} |-> IF k = s THEN {s} ELSE rooms[k]]
    /\ emitted' = {}
    /\ req' = [event |-> "connection", from |-> s]
    /\ res' = NoResponse
    /\ UNCHANGED storeVars

\* Mutant: the join is let into a room only while the meeting of that id
\* is stored and has not expired.
JoinRoomLiveOnly(s, roomId) ==
    /\ s \in sockets
    /\ rooms' = IF Own(roomId) /\ ~Expired(roomId, now)
                THEN [rooms EXCEPT ![s] = @ \cup {roomId}]
                ELSE rooms
    /\ emitted' = IF Own(roomId) /\ ~Expired(roomId, now)
                  THEN Emit(roomId, "user-joined", [id |-> s], {s})
                  ELSE {}
    /\ req' = [event |-> "join-room", from |-> s, roomId |-> roomId]
    /\ res' = NoResponse
    /\ UNCHANGED <<sockets, storeVars>>

\* Mutant: the join is announced with socket.broadcast.emit, to every
\* other socket whatever room it is in.
JoinRoomAnnounceAll(s, roomId) ==
    /\ s \in sockets
    /\ rooms' = [rooms EXCEPT ![s] = @ \cup {roomId}]
    /\ emitted' = {[to |-> t, room |-> roomId, event |-> "user-joined",
                     data |-> [id |-> s]] : t \in sockets \ {s}}
    /\ req' = [event |-> "join-room", from |-> s, roomId |-> roomId]
    /\ res' = NoResponse
    /\ UNCHANGED <<sockets, storeVars>>

\* Mutant: the join is announced with io.to(roomId), which reaches the joiner as well.
JoinRoomBroadcast(s, roomId) ==
    /\ s \in sockets
    /\ rooms' = [rooms EXCEPT ![s] = @ \cup {roomId}]
    /\ emitted' = {[to |-> t, room |-> roomId, event |-> "user-joined",
                     data |-> [id |-> s]] :
                        t \in {u \in sockets : u = s \/ roomId \in rooms[u]}}
    /\ req' = [event |-> "join-room", from |-> s, roomId |-> roomId]
    /\ res' = NoResponse
    /\ UNCHANGED <<sockets, storeVars>>

\* socket.on('join-room'): socket.join(roomId), then
\* socket.to(roomId).emit('user-joined', socket.id), which skips the sender.
JoinRoom(s, roomId) ==
    /\ s \in sockets
    /\ rooms' = [rooms EXCEPT ![s] = @ \cup {roomId}]
    /\ emitted' = Emit(roomId, "user-joined", [id |-> s], {s})
    /\ req' = [event |-> "join-room", from |-> s, roomId |-> roomId]
    /\ res' = NoResponse
    /\ UNCHANGED <<sockets, storeVars>>

\* Mutant: the send-call is relayed with socket.broadcast.emit, to every other socket.
SendCallBroadcast(s, userToSignal, callerId, signal) ==
    /\ s \in sockets
    /\ emitted' = {[to |-> t, room |-> userToSignal, event |-> "receive-call",
                     data |-> [callerId |-> callerId, signal |-> signal]] :
                        t \in sockets \ {s}}
    /\ req' = [event |-> "send-call", from |-> s, userToSignal |-> userToSignal,
               callerId |-> callerId, signal |-> signal]
    /\ res' = NoResponse
    /\ UNCHANGED <<sockets, rooms, storeVars>>

\* socket.on('send-call'): io.to(userToSignal).emit('receive-call', ...)
SendCall(s, userToSignal, callerId, signal) ==
    /\ s \in sockets
    /\ emitted' = Emit(userToSignal, "receive-call",
                       [callerId |-> callerId, signal |-> signal], {})
    /\ req' = [event |-> "send-call", from |-> s, userToSignal |-> userToSignal,
               callerId |-> callerId, signal |-> signal]
    /\ res' = NoResponse
    /\ UNCHANGED <<sockets, rooms, storeVars>>

\* Mutant: the accept-call answers with the id found in the payload.
AcceptCallPayloadId(s, callerId, signal) ==
    /\ s \in sockets
    /\ emitted' = Emit(callerId, "call-accepted",
                       [signal |-> signal, id |-> callerId], {})
    /\ req' = [event |-> "accept-call", from |-> s, callerId |-> callerId,
               signal |-> signal]
    /\ res' = NoResponse
    /\ UNCHANGED <<sockets, rooms, storeVars>>

\* socket.on('accept-call'): io.to(callerId).emit('call-accepted', ...)
AcceptCall(s, callerId, signal) ==
    /\ s \in sockets
    /\ emitted' = Emit(callerId, "call-accepted",
                       [signal |-> signal, id |-> s], {})
    /\ req' = [event |-> "accept-call", from |-> s, callerId |-> callerId,
               signal |-> signal]
    /\ res' = NoResponse
    /\ UNCHANGED <<sockets, rooms, storeVars>>

\* Mutant: the disconnect does what the handler itself does, log, and
\* leaves the socket in the rooms it was in.
DisconnectLogOnly(s) ==
    /\ s \in sockets
    /\ emitted' = {}
    /\ req' = [event |-> "disconnect", from |-> s]
    /\ res' = NoResponse
    /\ UNCHANGED <<sockets, rooms, storeVars>>

\* socket.on('disconnect'): the handler only logs; Socket.IO has taken the
\* socket out of all its rooms.
Disconnect(s) ==
    /\ s \in sockets
    /\ sockets' = sockets \ {s}
    /\ rooms' = [rooms EXCEPT ![s] = {}]
    /\ emitted' = {}
    /\ req' = [event |-> "disconnect", from |-> s]
    /\ res' = NoResponse
    /\ UNCHANGED storeVars

-----------------------------------------------------------------------------

Init ==
    /\ variant \in {1, 2}
    /\ now = 0
    /\ meetingData = << >>
    /\ inherited = [n \in InheritedNames |->
                       [slotTime |-> Undefined, status |-> "undefined"]]
    /\ mailQueue = << >>
    /\ res = NoResponse
    /\ sockets = {}
    /\ rooms = << >>
    /\ emitted = {}
    /\ req = NoRequest
    /\ inbox = [s \in SocketIds |-> << >>]

\* The 'user-joined' events the step delivers are appended to the inboxes
\* that still have room.
Log ==
    inbox' = [t \in SocketIds |->
                IF Len(inbox[t]) < MaxInbox
                    /\ \E e \in emitted' : e.to = t /\ e.event = "user-joined"
                THEN Append(inbox[t],
                            (CHOOSE e \in emitted' :
                                e.to = t /\ e.event = "user-joined").data.id)
                ELSE inbox[t]]

NoLog == UNCHANGED inbox

Next ==
    \/ \E c \in ContactInputs, draws \in Draws : CreateMeeting(c, draws) /\ NoLog
    \/ \E i \in 1..Len(mailQueue), ok \in BOOLEAN : MailSettled(i, ok) /\ NoLog
    \/ \E id \in IdInputs, s \in SlotInputs : SelectSlot(id, s) /\ NoLog
    \/ \E id \in IdInputs : ValidateMeeting(id) /\ NoLog
    \/ Tick /\ NoLog

RelayNext ==
    \/ \E s \in SocketIds : Connect(s) /\ NoLog
    \/ \E s \in SocketIds, r \in RoomInputs : JoinRoom(s, r) /\ NoLog
    \/ \E s \in SocketIds, t \in RoomInputs, c \in CallerInputs, g \in Signals :
            SendCall(s, t, c, g) /\ NoLog
    \/ \E s \in SocketIds, c \in CallerInputs, g \in Signals :
            AcceptCall(s, c, g) /\ NoLog
    \/ \E s \in SocketIds : Disconnect(s) /\ NoLog

\* The room the logged joins meet in: a meeting id.
JoinRooms == {"A"}

\* Connections, joins and disconnections, with the notifications logged.
JoinNext ==
    \/ \E s \in SocketIds : Connect(s) /\ Log
    \/ \E s \in SocketIds, r \in JoinRooms : JoinRoom(s, r) /\ Log
    \/ \E s \in SocketIds : Disconnect(s) /\ Log

\* The relay does not depend on which version of the server runs.
RelayInit == Init /\ variant = 1

\* The relay next to a registry in which meeting "A" is created and expires:
\* two sockets that meet in the room named after it.
PairSockets == {"s1", "s2"}

PairNext ==
    \/ \E c \in Contacts, draws \in {d \in Draws : \A i \in DOMAIN d : d[i] = "A"} :
            CreateMeeting(c, draws) /\ NoLog
    \/ \E id \in JoinRooms : ValidateMeeting(id) /\ NoLog
    \/ Tick /\ NoLog
    \/ \E s \in PairSockets : Connect(s) /\ NoLog
    \/ \E s \in PairSockets, r \in JoinRooms : JoinRoom(s, r) /\ NoLog
    \/ \E s \in PairSockets, t \in PairSockets, g \in Signals :
            SendCall(s, t, s, g) /\ NoLog
    \/ \E s \in PairSockets, c \in PairSockets, g \in Signals :
            AcceptCall(s, c, g) /\ NoLog
    \/ \E s \in PairSockets : Disconnect(s) /\ NoLog

\* The lifecycle API alone, the relay alone, the joins with their log, and
\* the relay next to the registry.
Spec == Init /\ [][Next]_vars
RelaySpec == RelayInit /\ [][RelayNext]_vars
JoinSpec == RelayInit /\ [][JoinNext]_vars
PairSpec == RelayInit /\ [][PairNext]_vars

-----------------------------------------------------------------------------
(* Properties                                                              *)

ExpiredBody == [valid |-> FALSE,
                message |-> "This meeting invitation link has expired."]
NotFoundBody == [valid |-> FALSE, message |-> "Meeting not found."]

Slot0930 == <<"0", "9", ":", "3", "0">>
Slot1400 == <<"1", "4", ":", "0", "0">>

DigitSeq == <<"0", "1", "2", "3", "4", "5", "6", "7", "8", "9">>
DigitVal(c) == (CHOOSE i \in 1..10 : DigitSeq[i] = c) - 1

\* A strict 24-hour HH:MM time: two digits, a colon, two digits, with the
\* hour below 24 and the minute below 60.
IsTime24(s) ==
    /\ Len(s) = 5
    /\ \A i \in {1, 2, 4, 5} : s[i] \in Digits
    /\ s[3] = ":"
    /\ 10 * DigitVal(s[1]) + DigitVal(s[2]) < 24
    /\ 10 * DigitVal(s[4]) + DigitVal(s[5]) < 60

\* The slot times a client sends that are strict 24-hour times.
Times24 == {t \in SlotInputs : IsTime24(t)}

\* C1: a validate-meeting answered for a stored meeting says "expired" when
\* the clock is past the meeting's expiry, confirmed or not, and says valid
\* when the clock is at or before the expiry.
C1_ExpiryAtReadTime ==
    (res.op = "validate-meeting" /\ Own(res.meetingId)) =>
        IF now > meetingData[res.meetingId].expires
        THEN res.body = ExpiredBody
        ELSE res.body.valid

\* A confirmed meeting has just been validated after its expiry.
C1_Witness ==
    /\ res.op = "validate-meeting"
    /\ Own(res.meetingId)
    /\ meetingData[res.meetingId].status = "confirmed"
    /\ now > meetingData[res.meetingId].expires
    /\ res.body = ExpiredBody

\* C2: validate-meeting on an id no create ever stored answers "not found",
\* and select-slot on such an id (both arguments present) answers 404,
\* whatever string the id is.
C2_UnknownIdNotFound ==
    /\ (res.op = "validate-meeting" /\ ~Own(res.meetingId)) =>
            res.body = NotFoundBody
    /\ (res.op = "select-slot" /\ ~Own(res.meetingId)
            /\ res.body.message # "required") =>
            res.status = 404

\* C3: select-slot on a stored meeting with a slot time that is present but
\* is not a strict 24-hour HH:MM time answers 400 "invalid format" and
\* stores nothing.
C3_MalformedSlotRejected ==
    [][\A id \in DOMAIN meetingData, t \in SlotInputs \ Times24 :
          (res'.op = "select-slot" /\ res'.meetingId = id
              /\ ~Falsy(t) /\ SelectSlot(id, t)) =>
              /\ res'.status = 400
              /\ res'.body.message = "Invalid slot time format. Expected HH:MM."
              /\ meetingData' = meetingData]_vars

\* C4: select-slot with a well-formed time on a stored meeting, pending or
\* already confirmed, answers 200 and leaves the meeting confirmed with that
\* time; doing it again changes nothing; the slot changes in no other step;
\* and a validate-meeting answered before expiry carries the stored slot.
C4_LastConfirmationWins ==
    [][/\ \A id \in DOMAIN meetingData, t \in Times24 :
            (res'.op = "select-slot" /\ res'.meetingId = id
                /\ SelectSlot(id, t)) =>
                /\ res'.status = 200
                /\ meetingData'[id].status = "confirmed"
                /\ meetingData'[id].slotTime = t
                /\ (meetingData[id].slotTime = t => meetingData' = meetingData)
       /\ \A id \in DOMAIN meetingData :
            (id \in DOMAIN meetingData'
                /\ meetingData'[id].slotTime # meetingData[id].slotTime) =>
                (res'.op = "select-slot" /\ res'.meetingId = id
                    /\ res'.status = 200)
       /\ \A id \in DOMAIN meetingData' :
            (res'.op = "validate-meeting" /\ res'.meetingId = id
                /\ now' <= meetingData'[id].expires) =>
                (res'.body.valid
                    /\ res'.body.slotTime = meetingData'[id].slotTime)]_vars

\* A validate-meeting on a confirmed meeting has just answered valid with
\* the 14:00 slot, while the other meeting holds 09:30.
C4_Witness ==
    /\ res.op = "validate-meeting"
    /\ Own(res.meetingId)
    /\ meetingData[res.meetingId].status = "confirmed"
    /\ res.body.valid
    /\ res.body.slotTime = Slot1400
    /\ \E other \in DOMAIN meetingData : meetingData[other].slotTime = Slot0930

\* C5: every stored meeting has a slot time exactly when it is confirmed.
C5_SlotIffConfirmed ==
    \A id \in DOMAIN meetingData :
        (meetingData[id].slotTime # Null) <=> (meetingData[id].status = "confirmed")

\* One meeting is confirmed with a slot while another is still pending.
C5_Witness ==
    \E a, b \in DOMAIN meetingData :
        /\ meetingData[a].status = "confirmed"
        /\ meetingData[a].slotTime = Slot0930
        /\ meetingData[b].status = "pending"
        /\ meetingData[b].slotTime = Null

\* C6: a meeting enters the registry as pending, and a confirmed meeting is
\* still stored and still confirmed after every step.
C6_StatusOnlyForward ==
    [][/\ \A id \in DOMAIN meetingData' \ DOMAIN meetingData :
            meetingData'[id].status = "pending"
       /\ \A id \in DOMAIN meetingData :
            meetingData[id].status = "confirmed" =>
                (id \in DOMAIN meetingData'
                    /\ meetingData'[id].status = "confirmed")]_vars

\* A confirmed meeting has outlived its expiry and a rejected select-slot.
C6_Witness ==
    /\ res.op = "select-slot"
    /\ res.status = 400
    /\ Own(res.meetingId)
    /\ meetingData[res.meetingId].status = "confirmed"
    /\ now > meetingData[res.meetingId].expires

\* The id a create step has just stored: version 1 hands it to sendMail,
\* version 2 answers with it.
CreatedId ==
    IF variant = 1 THEN mailQueue'[Len(mailQueue')].meetingId ELSE res'.meetingId

CreateStep ==
    \/ variant = 1 /\ Len(mailQueue') > Len(mailQueue)
    \/ variant = 2 /\ res'.op = "create-meeting" /\ res'.status = 200

\* C7: the id a create stores was not stored before the step and is the id
\* of no create still in flight, the step leaves every stored meeting as it
\* was, and every meeting is stored under its own id.
C7_CreateNeverCollides ==
    [][CreateStep =>
        /\ CreatedId \notin DOMAIN meetingData
        /\ CreatedId \in DOMAIN meetingData'
        /\ \A k \in DOMAIN meetingData : meetingData'[k] = meetingData[k]
        /\ \A i \in 1..Len(mailQueue) : mailQueue[i].meetingId # CreatedId
        /\ \A k \in DOMAIN meetingData' : meetingData'[k].id = k]_vars

\* Two creates are in flight at once, each with a meeting of its own.
C7_Witness ==
    /\ Len(mailQueue) = 2
    /\ mailQueue[1].meetingId # mailQueue[2].meetingId
    /\ \A i \in 1..2 : Own(mailQueue[i].meetingId)

\* C8: a create that finds every id of the generator stored ends with an
\* internal-error answer.
C8_ExhaustedCreateAborts ==
    (res.op = "create-meeting" /\ res.body = [error |-> "RangeError"]
        /\ GenIds \subseteq DOMAIN meetingData) =>
        res.status = 500

\* C9: when the mail fails the caller gets the 500 EMAIL_FAILED answer, the
\* registry is left as it was with the meeting still stored, and a meeting
\* whose mail is in flight is stored.
C9_FailedMailKeepsMeeting ==
    [][/\ \A i \in 1..Len(mailQueue) :
            (Len(mailQueue') < Len(mailQueue) /\ MailSettled(i, FALSE)) =>
                /\ res'.status = 500
                /\ res'.body = [success |-> FALSE, code |-> "EMAIL_FAILED"]
                /\ meetingData' = meetingData
                /\ mailQueue[i].meetingId \in DOMAIN meetingData'
       /\ \A i \in 1..Len(mailQueue') :
            mailQueue'[i].meetingId \in DOMAIN meetingData']_vars

\* The mail of a meeting has just failed; the meeting was confirmed while
\* the mail was in flight and is stored with its slot.
C9_Witness ==
    /\ res.op = "create-meeting"
    /\ res.status = 500
    /\ res.body = [success |-> FALSE, code |-> "EMAIL_FAILED"]
    /\ Own(res.meetingId)
    /\ meetingData[res.meetingId].status = "confirmed"
    /\ ValidateBody(res.meetingId, now).valid

\* C10: every receive-call a send-call delivers goes to the connection
\* whose id is the target the sender named, and to no other connection.
C10_PointToPoint ==
    \A e \in emitted : e.event = "receive-call" => e.to = e.room

\* The original reading of C11: of two connections that are members of the
\* same room, each has received the 'user-joined' of the other.
C11_EachReceivesTheOther ==
    \A a \in sockets, b \in sockets :
        (a # b /\ \E r \in JoinRooms : r \in rooms[a] /\ r \in rooms[b]
              /\ Len(inbox[b]) < MaxInbox)
            => \E i \in 1..Len(inbox[b]) : inbox[b][i] = a

\* C11: a join-room of socket s appends exactly one 'user-joined' carrying
\* s's id to the inbox of every other connected member of the room, in the
\* order of the joins, and nothing to the inbox of s or of a socket outside
\* the room: the earlier joiner hears of the later one, never the reverse.
\* No other event touches an inbox.
C11_EarlierHearsOfLater ==
    [][/\ req'.event # "join-room" => inbox' = inbox
       /\ req'.event = "join-room" =>
            \A t \in SocketIds :
                inbox'[t] = IF /\ t # req'.from
                               /\ t \in sockets
                               /\ req'.roomId \in rooms[t]
                               /\ Len(inbox[t]) < MaxInbox
                            THEN Append(inbox[t], req'.from)
                            ELSE inbox[t]]_vars

C11_Witness ==
    \E a \in sockets, b \in sockets, c \in sockets :
        /\ \A t \in {a, b, c} : "A" \in rooms[t]
        /\ inbox[a] = <<b, c>>
        /\ inbox[b] = <<c>>
        /\ inbox[c] = << >>

\* The original reading of C12: a send-call whose target is the id of a
\* connection that joined no room (it is not connected, or it is connected
\* and is in no room but the one Socket.IO gave it) delivers nothing.
C12_NeverJoinedTargetGetsNothing ==
    (/\ req.event = "send-call"
     /\ req.userToSignal \in SocketIds \ {req.from}
     /\ (req.userToSignal \in DOMAIN rooms =>
            rooms[req.userToSignal] = {req.userToSignal}))
        => emitted = {}

\* C12: a send-call whose target names no connected socket and no room a
\* connected socket is in delivers no event to anyone; a target that is a
\* connected socket gets the 'receive-call', whether or not it ever joined
\* a room.
C12_UnknownTargetGetsNothing ==
    req.event = "send-call" =>
        /\ Members(req.userToSignal) = {} => emitted = {}
        /\ req.userToSignal \in sockets =>
            \E e \in emitted : /\ e.to = req.userToSignal
                               /\ e.event = "receive-call"

C12_Witness ==
    /\ req.event = "send-call"
    /\ req.userToSignal \in SocketIds \ DOMAIN rooms
    /\ Cardinality(sockets) >= 2
    /\ \E t \in sockets : "A" \in rooms[t]
    /\ emitted = {}

\* C13: an accept-call from socket R delivers 'call-accepted' to the
\* connected socket whose id is the callerId given, and every copy carries
\* the signal unchanged and R's own socket id, which the server assigned;
\* the callerId inside a 'receive-call' is the one the sender supplied.
C13_AcceptCarriesServerId ==
    /\ req.event = "accept-call" =>
        /\ \A e \in emitted :
            /\ e.event = "call-accepted"
            /\ e.data = [signal |-> req.signal, id |-> req.from]
        /\ req.callerId \in sockets => \E e \in emitted : e.to = req.callerId
    /\ req.event = "send-call" =>
        \A e \in emitted :
            /\ e.event = "receive-call"
            /\ e.data = [callerId |-> req.callerId, signal |-> req.signal]

C13_Witness ==
    /\ req.event = "accept-call"
    /\ req.callerId \in sockets \ {req.from}
    /\ \E e \in emitted : /\ e.to = req.callerId
                          /\ e.data.id = req.from
                          /\ e.data.signal = req.signal

\* C14: after a join-room(roomId) from socket C, C is a member of roomId,
\* and 'user-joined' carrying C's id has been delivered to exactly the
\* other members of roomId: not to C, not to a socket outside the room.
C14_JoinNotifiesTheRoom ==
    req.event = "join-room" =>
        /\ req.from \in Members(req.roomId)
        /\ {e.to : e \in emitted} = Members(req.roomId) \ {req.from}
        /\ \A e \in emitted : /\ e.event = "user-joined"
                              /\ e.data = [id |-> req.from]

C14_Witness ==
    /\ req.event = "join-room"
    /\ req.roomId = "A"
    /\ \E t \in sockets \ {req.from} :
        /\ "A" \in rooms[t]
        /\ \E e \in emitted : e.to = t
    /\ \E u \in sockets \ {req.from} :
        /\ "A" \notin rooms[u]
        /\ \A e \in emitted : e.to # u

\* C15: a disconnect takes the socket out of every room and delivers no
\* event to anyone; a socket that has disconnected never comes back, and
\* no later step delivers an event to it.
C15_DisconnectedGetsNothing ==
    [][/\ req'.event = "disconnect" =>
            /\ emitted' = {}
            /\ req'.from \notin sockets'
            /\ rooms'[req'.from] = {}
       /\ \A s \in DOMAIN rooms \ sockets :
            /\ s \notin sockets'
            /\ rooms'[s] = {}
            /\ \A e \in emitted' : e.to # s]_vars

C15_Witness ==
    /\ req.event = "send-call"
    /\ req.userToSignal \in DOMAIN rooms \ sockets
    /\ sockets # {}
    /\ emitted = {}

\* C16: a meeting room never has more than two members, so a third socket
\* that joins a room with two members does not become a member.
C16_AtMostTwoMembers ==
    \A r \in JoinRooms : Cardinality(Members(r)) <= 2

\* C17: a step that handles a relay event leaves the clock, the meetings
\* and the pending mails as they were, and a join-room has the same outcome
\* whether the room id names no meeting, an expired meeting or a live one:
\* the sender is in the room and the other members of the room are told.
C17_RelayIgnoresRegistry ==
    [][/\ req'.event # "none" => UNCHANGED storeVars
       /\ req'.event = "join-room" =>
            /\ req'.roomId \in rooms'[req'.from]
            /\ {e.to : e \in emitted'} =
                    {t \in sockets \ {req'.from} : req'.roomId \in rooms[t]}]_vars

C17_Witness ==
    /\ req.event = "join-room"
    /\ Own(req.roomId)
    /\ Expired(req.roomId, now)
    /\ meetingData[req.roomId].status = "pending"
    /\ emitted # {}

\* C18: a select-slot with a well-formed slot time on a stored meeting
\* that has already expired succeeds, records the slot time and the status
\* 'confirmed', and leaves expires as it was, so that validation of the
\* meeting still answers 'Meeting expired'.
C18_ConfirmIgnoresExpiry ==
    [][\A id \in DOMAIN meetingData, t \in Times24 :
        (/\ res'.op = "select-slot"
         /\ res'.meetingId = id
         /\ Expired(id, now)
         /\ SelectSlot(id, t))
            => /\ res'.status = 200
               /\ meetingData'[id].slotTime = t
               /\ meetingData'[id].status = "confirmed"
               /\ meetingData'[id].expires = meetingData[id].expires
               /\ now' > meetingData'[id].expires]_vars

C18_Witness ==
    /\ res.op = "select-slot"
    /\ res.status = 200
    /\ Own(res.meetingId)
    /\ Expired(res.meetingId, now)
    /\ meetingData[res.meetingId].slotTime = Slot1400
    /\ ValidateBody(res.meetingId, now) = ExpiredBody

\* C19: a stored meeting stays stored, with the id, createdAt, expires and
\* recipient it was created with; the clock never goes back; so a meeting
\* that validation reports expired is reported expired by every later
\* validation, never valid and never 'not found'.
C19_ExpiredForGood ==
    [][/\ now' >= now
       /\ \A id \in DOMAIN meetingData :
            /\ id \in DOMAIN meetingData'
            /\ meetingData'[id].id = meetingData[id].id
            /\ meetingData'[id].createdAt = meetingData[id].createdAt
            /\ meetingData'[id].expires = meetingData[id].expires
            /\ meetingData'[id].recipient = meetingData[id].recipient
            /\ (/\ Expired(id, now)
                /\ res'.op = "validate-meeting"
                /\ res'.meetingId = id) => res'.body = ExpiredBody]_vars

C19_Witness ==
    /\ res.op = "validate-meeting"
    /\ res.body = ExpiredBody
    /\ Own(res.meetingId)
    /\ now >= meetingData[res.meetingId].expires + TTL
    /\ meetingData[res.meetingId].slotTime = Slot0930
    /\ Cardinality(DOMAIN meetingData) = 2

\* C20: a lifecycle call answered with 400 or 404 (create-meeting without a
\* contact; select-slot without an argument, on an id not found or with a
\* slot time the pattern refuses) and every validate-meeting leave the
\* stored meetings exactly as they were: none added, no field changed.
C20_RefusalsChangeNothing ==
    [][(\/ res'.op = "validate-meeting"
        \/ res'.op \in {"create-meeting", "select-slot"}
            /\ res'.status \in {400, 404})
        => meetingData' = meetingData]_vars

C20_Witness ==
    /\ res.op = "select-slot"
    /\ res.status = 400
    /\ Own(res.meetingId)
    /\ meetingData[res.meetingId].status = "confirmed"
    /\ Cardinality(DOMAIN meetingData) = 2

=============================================================================
